---- MODULE Spec2Model ----
(***************************************************************************)
(* A model of the DC2_Repo notebooks: the truth/coadd matching notebook,   *)
(* the LSST Stack matching notebook, the truth catalog query notebook and  *)
(* the cluster member plotting notebook.  Each notebook is a sequence of   *)
(* cells; a cell that changes the kernel's variables is one action.        *)
(* Arrays are sequences; the element numpy calls a[k] is At(a, k).         *)
(* Magnitudes and angles are integers in tenths of the source's unit.      *)
(***************************************************************************)
EXTENDS Integers, Sequences, FiniteSets, TLC

(***************************************************************************)
(* Bounds of the model.                                                    *)
(***************************************************************************)
MaxTruth == 2
MaxCoadd == 2
MaxHalos == 4
MaxGalaxies == 2
MaxCols == 3
MaxObjects == 2

(***************************************************************************)
(* Program constants, in tenths of a magnitude or of a degree.             *)
(***************************************************************************)
ra_min == 555
ra_max == 560
dec_min == -290
dec_max == -285
mag_i_cut == 245

\* cluster member notebook: tenths of a magnitude, 1e13 Msun/h, tenths of z
mag_r_cut == 190
halo_mass_cut == 10
redshift_cut == 2
PlotLimit == 3
marker_ref == 190
marker_scale == 8

\* LSST Stack matching notebook: tenths of a degree or of a magnitude
protoDC2_ra == 551
protoDC2_dec == -298
mag_max == 245

\* truth catalog notebook: tenths of a degree or of a magnitude
center_ra == 546
center_dec == -280
radius == 2
r_star_cut == 170
r_galaxy_cut == 210

\* numpy's nan: every ordered comparison with it is false
NaN == -999999

VARIABLES
  pc,                  \* the cell the running notebook is about to execute
  coadd_cat,           \* rows of the coadd catalog on disk
  truth_cat,           \* rows of the truth catalog on disk
  extragalactic_cat,   \* rows of the extragalactic catalog on disk
  coadd_data,          \* coadd_cat.get_quantities(...)
  truth_data,          \* truth_cat.get_quantities(...)
  results,             \* the table FoFCatalogMatching.match returns
  n_groups, n_truth, n_coadd, n_max, hist_2d,
  truth_idx, coadd_idx,
  matched, matched_gals,
  extragalactic_data,
  \* cluster member notebook
  gc,                  \* rows of the protoDC2 catalog on disk
  galaxy_data, cluster_data,
  i,                   \* the loop's enumerate index
  members,
  figures,             \* the figures of the running cell, in creation order
  queries,             \* the cluster indexes whose members the cell has queried
  \* LSST Stack matching notebook
  catalog,             \* the deepCoadd_meas catalog the butler returned
  drp_catalog,
  matches,             \* what afw_table.matchRaDec returned
  warnings_filters,    \* warnings.filters, the first entry first
  saved_filters,       \* the filters catch_warnings saved on entry
  warned,              \* the warnings issued so far, and whether each was shown
  filter_,
  region_selector,     \* its ra_range and dec_range
  gc_stack,            \* rows of the protoDC2 catalog (the notebook's gc)
  galaxy_catalog,
  new_cols,            \* the argument of a make_SourceCatalog call
  source_catalog,      \* what the call returned
  \* truth catalog notebook
  truth_catalog,       \* rows of the truth catalog on disk
  list_of_healpix,
  native,              \* the rows get_quantities hands to the filter functions
  hp_mask, dist_mask,  \* what filter_on_healpix and filter_on_dist returned
  bright_stars, bright_unsprinkled_galaxies,
  \* every notebook
  calls                \* the library calls made so far, in order

matchVars == <<coadd_cat, truth_cat, extragalactic_cat, coadd_data, truth_data,
               results, n_groups, n_truth, n_coadd, n_max, hist_2d,
               truth_idx, coadd_idx, matched, matched_gals, extragalactic_data>>

clusterVars == <<gc, galaxy_data, cluster_data, i, members, figures, queries>>

stackVars == <<filter_, region_selector, gc_stack, galaxy_catalog, new_cols, source_catalog,
               catalog, drp_catalog, matches, warnings_filters, saved_filters, warned>>

queryVars == <<truth_catalog, list_of_healpix, native, hp_mask, dist_mask,
               bright_stars, bright_unsprinkled_galaxies>>

vars == <<pc, matchVars, clusterVars, stackVars, queryVars, calls>>

otherThanMatch == <<clusterVars, stackVars, queryVars>>

otherThanCluster == <<matchVars, stackVars, queryVars>>

otherThanStack == <<matchVars, clusterVars, queryVars>>

otherThanQuery == <<matchVars, clusterVars, stackVars>>

MatchIdle ==
  /\ coadd_cat = <<>>
  /\ truth_cat = <<>>
  /\ extragalactic_cat = <<>>
  /\ coadd_data = <<>>
  /\ truth_data = <<>>
  /\ results = <<>>
  /\ n_groups = 0
  /\ n_truth = <<>>
  /\ n_coadd = <<>>
  /\ n_max = 0
  /\ hist_2d = <<>>
  /\ truth_idx = <<>>
  /\ coadd_idx = <<>>
  /\ matched = <<>>
  /\ matched_gals = <<>>
  /\ extragalactic_data = <<>>

ClusterIdle ==
  /\ gc = <<>>
  /\ galaxy_data = <<>>
  /\ cluster_data = <<>>
  /\ i = 0
  /\ members = <<>>
  /\ figures = <<>>
  /\ queries = <<>>

QueryIdle ==
  /\ truth_catalog = <<>>
  /\ list_of_healpix = <<>>
  /\ native = <<>>
  /\ hp_mask = <<>>
  /\ dist_mask = <<>>
  /\ bright_stars = <<>>
  /\ bright_unsprinkled_galaxies = <<>>

NoSelector == [ra_range |-> <<0, 0>>, dec_range |-> <<0, 0>>]

NoCatalog == [schema |-> <<>>, records |-> <<>>]

\* the Stack notebook's variables before its first cell, warnings.filters aside
StackUnset ==
  /\ filter_ = ""
  /\ region_selector = NoSelector
  /\ gc_stack = <<>>
  /\ galaxy_catalog = NoCatalog
  /\ new_cols = <<>>
  /\ source_catalog = NoCatalog
  /\ catalog = <<>>
  /\ drp_catalog = NoCatalog
  /\ matches = {}
  /\ saved_filters = <<>>
  /\ warned = <<>>

StackIdle ==
  /\ StackUnset
  /\ warnings_filters = <<>>

\* one entry of calls: the library call op, the variable its result is bound
\* to, the variables holding the catalogs it works on, and whether it returned
Call(op, to, on, ok) == [op |-> op, to |-> to, on |-> on, ok |-> ok]

Log(op, to, on) == calls' = Append(calls, Call(op, to, on, TRUE))

(***************************************************************************)
(* numpy helpers                                                           *)
(***************************************************************************)
At(a, k) == a[k + 1]

Max2(a, b) == IF a >= b THEN a ELSE b

Elems(a) == {a[j] : j \in DOMAIN a}

ArrayMax(a) == CHOOSE m \in Elems(a) : \A x \in Elems(a) : x <= m

\* a[mask]: the elements of a at the positions where mask is TRUE, in order
RECURSIVE Take(_, _)
Take(a, mask) ==
  IF a = <<>> THEN <<>>
  ELSE LET rest == Take(Tail(a), Tail(mask))
       IN  IF Head(mask) THEN <<Head(a)>> \o rest ELSE rest

\* np.bincount(x, minlength=n)
bincount(x, minlength) ==
  LET len == IF x = <<>> THEN minlength ELSE Max2(minlength, ArrayMax(x) + 1)
  IN  [k \in 1..len |-> Cardinality({j \in DOMAIN x : x[j] = k - 1})]

\* np.in1d(ar1, ar2)
in1d(ar1, ar2) == [j \in DOMAIN ar1 |-> ar1[j] \in Elems(ar2)]

\* np.flatnonzero(mask)
flatnonzero(mask) == Take([j \in DOMAIN mask |-> j - 1], mask)

\* IEEE comparison and np.isfinite
Lt(x, y) == x # NaN /\ y # NaN /\ x < y
Ge(x, y) == x # NaN /\ y # NaN /\ x >= y
isfinite(x) == x # NaN

Column(rows, name) == [j \in DOMAIN rows |-> rows[j][name]]

(***************************************************************************)
(* Truth/coadd matching notebook.  GCR's get_quantities keeps, in catalog  *)
(* order, the rows passing every filter (SelectSeq).                       *)
(***************************************************************************)
coord_filters(ra, dec) ==
  /\ Ge(ra, ra_min)
  /\ Lt(ra, ra_max)
  /\ Ge(dec, dec_min)
  /\ Lt(dec, dec_max)

mag_filters(mag_i) ==
  /\ isfinite(mag_i)
  /\ Lt(mag_i, mag_i_cut)

\* the filters of the coadd query: coord_filters + mag_filters
CoaddFilter(row) == coord_filters(row.ra, row.dec) /\ mag_filters(row.mag_i)

\* the truth query: native filters coord_filters + ['i < 24.5'], then
\* mag_filters on mag_i, which the quantity modifier maps to the native i
truth_native_filters(row) == coord_filters(row.ra, row.dec) /\ Lt(row.i, mag_i_cut)

TruthFilter(row) == truth_native_filters(row) /\ mag_filters(row.i)

CoaddQuery(cat) == SelectSeq(cat, CoaddFilter)

TruthQuery(cat) == SelectSeq(cat, TruthFilter)

\* what can be on disk
CoaddRowSet ==
  {r \in [ra : {ra_min, ra_max}, dec : {dec_min}, mag_i : {mag_i_cut - 5, NaN}] :
     r.ra = ra_min \/ r.mag_i # NaN}

TruthRowSet(id) ==
  {r \in [object_id : {id}, ra : {ra_min}, dec : {dec_min},
          i : {mag_i_cut - 5, mag_i_cut + 5},
          star : BOOLEAN, sprinkled : BOOLEAN] :
     /\ ~(r.star /\ r.sprinkled)
     /\ r.i < mag_i_cut \/ ~(r.star \/ r.sprinkled)}

SeqsUpTo(S, n) == UNION {[1..m -> S] : m \in 0..n}

CoaddCatalogs == SeqsUpTo(CoaddRowSet, MaxCoadd)

TruthCatalogs ==
  UNION {{c \in [1..m -> UNION {TruthRowSet(id) : id \in 1..m}] :
            \A j \in 1..m : c[j].object_id = j} : m \in 0..MaxTruth}

\* truth galaxies that are neither stars nor sprinkled are protoDC2 galaxies:
\* object_id maps directly to galaxy_id; stars and sprinkled objects do not
\* occur in the extragalactic catalog
IsExtragalactic(row) == ~row.star /\ ~row.sprinkled

TruthGalaxyIds == {truth_cat[j].object_id : j \in {k \in DOMAIN truth_cat : IsExtragalactic(truth_cat[k])}}

\* a galaxy of the extragalactic catalog that the truth query does not return
OtherGalaxyIds == {MaxTruth + 1}

RECURSIVE SortedSeq(_)
SortedSeq(S) ==
  IF S = {} THEN <<>>
  ELSE LET m == CHOOSE x \in S : \A y \in S : x <= y
       IN  <<m>> \o SortedSeq(S \ {m})

ExtragalacticCatalogs ==
  {[j \in DOMAIN SortedSeq(TruthGalaxyIds \cup extra) |->
      [galaxy_id |-> SortedSeq(TruthGalaxyIds \cup extra)[j], mag_i |-> mag_i_cut - 5]] :
     extra \in SUBSET OtherGalaxyIds}

(***************************************************************************)
(* FoFCatalogMatching.match: one row per input row, carrying the catalog   *)
(* it came from, its index in that catalog and the id of its group; the    *)
(* rows of a group are adjacent.                                           *)
(***************************************************************************)
Stacked(nt, nc, grp) ==
  [j \in 1..(nt + nc) |->
     IF j <= nt
     THEN [row_index |-> j - 1, catalog_key |-> "truth", group_id |-> grp[j]]
     ELSE [row_index |-> j - nt - 1, catalog_key |-> "coadd", group_id |-> grp[j]]]

\* group ids are not negative and need not start at 0; within the table the
\* groups are numbered in the order in which their first row is stacked
RECURSIVE GroupLabels(_)
GroupLabels(n) ==
  IF n = 0 THEN {<<>>}
  ELSE IF n = 1 THEN {<<0>>, <<1>>}
  ELSE UNION {{Append(grp, g) : g \in Elems(grp) \cup {ArrayMax(grp) + 1}} :
                grp \in GroupLabels(n - 1)}

RECURSIVE GroupSorted(_, _, _)
GroupSorted(rows, g, last) ==
  IF g > last THEN <<>>
  ELSE LET InGroup(r) == r.group_id = g
       IN  SelectSeq(rows, InGroup) \o GroupSorted(rows, g + 1, last)

FoFResults(nt, nc) ==
  {GroupSorted(Stacked(nt, nc, grp), 0, nt + nc) : grp \in GroupLabels(nt + nc)}

(***************************************************************************)
(* The counting cell                                                       *)
(***************************************************************************)
truth_mask(res) == [j \in DOMAIN res |-> res[j].catalog_key = "truth"]

coadd_mask(res) == [j \in DOMAIN res |-> ~truth_mask(res)[j]]

NGroups(res) == ArrayMax(Column(res, "group_id")) + 1

NTruth_NoMinlength(res) == bincount(Take(Column(res, "group_id"), truth_mask(res)), 0)

NTruth(res) == bincount(Take(Column(res, "group_id"), truth_mask(res)), NGroups(res))

NCoadd(res) == bincount(Take(Column(res, "group_id"), coadd_mask(res)), NGroups(res))

NMax_NoPlusOne(nt, nc) == Max2(ArrayMax(nt), ArrayMax(nc))

NMax(nt, nc) == Max2(ArrayMax(nt), ArrayMax(nc)) + 1

\* n_coadd * n_max + n_truth, elementwise
FlatIndex(nt, nc, nmax) == [j \in DOMAIN nc |-> nc[j] * nmax + nt[j]]

Hist2dFlat(nt, nc, nmax) == bincount(FlatIndex(nt, nc, nmax), nmax * nmax)

\* a.reshape(n, m): row c is a[c*m .. c*m + m - 1]
reshape(a, n, m) == [c \in 1..n |-> [t \in 1..m |-> a[(c - 1) * m + t]]]

(***************************************************************************)
(* The one-to-one cell                                                     *)
(***************************************************************************)
OneToOneGroups_TruthOnly(nt, nc) ==
  flatnonzero([j \in DOMAIN nt |-> nt[j] = 1])

OneToOneGroups(nt, nc) ==
  flatnonzero([j \in DOMAIN nt |-> nt[j] = 1 /\ nc[j] = 1])

one_to_one_group_mask(res, nt, nc) ==
  in1d(Column(res, "group_id"), OneToOneGroups(nt, nc))

MaskAnd(a, b) == [j \in DOMAIN a |-> a[j] /\ b[j]]

TruthIdx(res, nt, nc) ==
  Take(Column(res, "row_index"), MaskAnd(one_to_one_group_mask(res, nt, nc), truth_mask(res)))

CoaddIdx(res, nt, nc) ==
  Take(Column(res, "row_index"), MaskAnd(one_to_one_group_mask(res, nt, nc), coadd_mask(res)))

(***************************************************************************)
(* The pandas cells                                                        *)
(***************************************************************************)
\* pd.DataFrame(data).iloc[idx].reset_index(drop=True)
iloc(rows, idx) == [k \in DOMAIN idx |-> At(rows, idx[k])]

Min2(a, b) == IF a <= b THEN a ELSE b

\* pd.merge(truth_matched, coadd_matched, left_index=True, right_index=True,
\*          suffixes=('_truth', '_coadd')): an inner join on the index
MergeOnIndex(truth_matched, coadd_matched) ==
  [k \in 1..Min2(Len(truth_matched), Len(coadd_matched)) |->
     [object_id |-> truth_matched[k].object_id,
      star      |-> truth_matched[k].star,
      sprinkled |-> truth_matched[k].sprinkled,
      ra_truth  |-> truth_matched[k].ra,
      dec_truth |-> truth_matched[k].dec,
      ra_coadd  |-> coadd_matched[k].ra,
      dec_coadd |-> coadd_matched[k].dec,
      mag_i     |-> coadd_matched[k].mag_i]]

NotStar(row) == ~row.star

NotSprinkled(row) == ~row.sprinkled

MatchedGalsQuery_StarsOnly(m) == SelectSeq(m, NotStar)

\* matched.query('~star').query('~sprinkled')
MatchedGalsQuery(m) == SelectSeq(SelectSeq(m, NotStar), NotSprinkled)

\* the filter (lambda x: np.in1d(x, matched_gals['object_id'].values, True), 'galaxy_id')
GalaxyIdFilter(x, gals) == in1d(x, Column(gals, "object_id"))

ExtragalacticQuery(cat, gals) ==
  Take(cat, GalaxyIdFilter(Column(cat, "galaxy_id"), gals))

JoinRow(l, galaxy_id, mag_i_extra) ==
  [object_id |-> l.object_id, star |-> l.star, sprinkled |-> l.sprinkled,
   ra_truth |-> l.ra_truth, dec_truth |-> l.dec_truth,
   ra_coadd |-> l.ra_coadd, dec_coadd |-> l.dec_coadd, mag_i |-> l.mag_i,
   galaxy_id |-> galaxy_id, mag_i_extra |-> mag_i_extra]

\* the rows of a left join for one left row: one per right row with the key,
\* in the right table's order, or one row of missing values when there is none
JoinOne(l, right) ==
  LET SameKey(r) == r.galaxy_id = l.object_id
      hits == SelectSeq(right, SameKey)
  IN  IF hits = <<>> THEN <<JoinRow(l, NaN, NaN)>>
      ELSE [k \in DOMAIN hits |-> JoinRow(l, hits[k].galaxy_id, hits[k].mag_i)]

\* pd.merge(matched_gals, pd.DataFrame(extragalactic_data), 'left',
\*          left_on='object_id', right_on='galaxy_id', suffixes=('', '_extra'))
RECURSIVE MergeLeft(_, _)
MergeLeft(left, right) ==
  IF left = <<>> THEN <<>>
  ELSE JoinOne(Head(left), right) \o MergeLeft(Tail(left), right)

\* np.testing.assert_array_equal(a, b) does not raise
assert_array_equal(a, b) == Len(a) = Len(b) /\ \A k \in DOMAIN a : a[k] = b[k]

(***************************************************************************)
(* The cells of the matching notebook, in order                            *)
(***************************************************************************)
MatchInit ==
  /\ calls = <<>>
  /\ QueryIdle
  /\ pc = "load_coadd"
  /\ MatchIdle
  /\ ClusterIdle
  /\ StackIdle

LoadCoaddCat ==
  /\ UNCHANGED otherThanMatch
  /\ pc = "load_coadd"
  /\ coadd_cat' \in CoaddCatalogs
  /\ pc' = "footprint"
  /\ UNCHANGED <<truth_cat, extragalactic_cat, coadd_data, truth_data, results,
                 n_groups, n_truth, n_coadd, n_max, hist_2d, truth_idx, coadd_idx,
                 matched, matched_gals, extragalactic_data>>
  /\ Log("load_catalog", "coadd_cat", {})

\* for coadd_data in coadd_cat.get_quantities(['ra', 'dec'], return_iterator=True):
\* the loop variable is left bound to the last chunk, if there was one
InspectFootprint ==
  /\ UNCHANGED otherThanMatch
  /\ pc = "footprint"
  /\ coadd_data' = [k \in DOMAIN coadd_cat |-> [ra |-> coadd_cat[k].ra, dec |-> coadd_cat[k].dec]]
  /\ pc' = "get_coadd"
  /\ UNCHANGED <<coadd_cat, truth_cat, extragalactic_cat, truth_data, results,
                 n_groups, n_truth, n_coadd, n_max, hist_2d, truth_idx, coadd_idx,
                 matched, matched_gals, extragalactic_data>>
  /\ Log("get_quantities", "coadd_data", {"coadd_cat"})

GetCoaddData ==
  /\ UNCHANGED otherThanMatch
  /\ pc = "get_coadd"
  /\ coadd_data' = CoaddQuery(coadd_cat)
  /\ pc' = "load_truth"
  /\ UNCHANGED <<coadd_cat, truth_cat, extragalactic_cat, truth_data, results,
                 n_groups, n_truth, n_coadd, n_max, hist_2d, truth_idx, coadd_idx,
                 matched, matched_gals, extragalactic_data>>
  /\ Log("get_quantities", "coadd_data", {"coadd_cat"})

LoadTruthCat ==
  /\ UNCHANGED otherThanMatch
  /\ pc = "load_truth"
  /\ truth_cat' \in TruthCatalogs
  /\ pc' = "get_truth"
  /\ UNCHANGED <<coadd_cat, extragalactic_cat, coadd_data, truth_data, results,
                 n_groups, n_truth, n_coadd, n_max, hist_2d, truth_idx, coadd_idx,
                 matched, matched_gals, extragalactic_data>>
  /\ Log("load_catalog", "truth_cat", {})

GetTruthData ==
  /\ UNCHANGED otherThanMatch
  /\ pc = "get_truth"
  /\ truth_data' = TruthQuery(truth_cat)
  /\ pc' = "match"
  /\ UNCHANGED <<coadd_cat, truth_cat, extragalactic_cat, coadd_data, results,
                 n_groups, n_truth, n_coadd, n_max, hist_2d, truth_idx, coadd_idx,
                 matched, matched_gals, extragalactic_data>>
  /\ Log("get_quantities", "truth_data", {"truth_cat"})

FoFMatch_BeforeTruth ==
  /\ UNCHANGED otherThanMatch
  /\ pc \in {"load_truth", "match"}
  /\ results' \in FoFResults(Len(truth_data), Len(coadd_data))
  /\ pc' = "count"
  /\ UNCHANGED <<coadd_cat, truth_cat, extragalactic_cat, coadd_data, truth_data,
                 n_groups, n_truth, n_coadd, n_max, hist_2d, truth_idx, coadd_idx,
                 matched, matched_gals, extragalactic_data>>
  /\ Log("match", "results", {"truth_data", "coadd_data"})

FoFMatch ==
  /\ UNCHANGED otherThanMatch
  /\ pc = "match"
  /\ results' \in FoFResults(Len(truth_data), Len(coadd_data))
  /\ pc' = "count"
  /\ UNCHANGED <<coadd_cat, truth_cat, extragalactic_cat, coadd_data, truth_data,
                 n_groups, n_truth, n_coadd, n_max, hist_2d, truth_idx, coadd_idx,
                 matched, matched_gals, extragalactic_data>>
  /\ Log("match", "results", {"truth_data", "coadd_data"})

\* max() raises ValueError on an empty array; the sum
\* n_coadd * n_max + n_truth raises when the two arrays differ in length, and
\* reshape raises when the flat histogram is not n_max*n_max long.  What was
\* assigned before the exception stays assigned.
CountGroups ==
  /\ UNCHANGED otherThanMatch
  /\ pc = "count"
  /\ IF results = <<>>
     THEN /\ pc' = "raised"
          /\ UNCHANGED <<n_groups, n_truth, n_coadd, n_max, hist_2d>>
     ELSE LET nt == NTruth(results)
              nc == NCoadd(results)
          IN  /\ n_groups' = NGroups(results)
              /\ n_truth' = nt
              /\ n_coadd' = nc
              /\ IF nt = <<>> \/ nc = <<>>
                 THEN /\ pc' = "raised"
                      /\ UNCHANGED <<n_max, hist_2d>>
                 ELSE LET nmax == NMax(nt, nc)
                      IN  /\ n_max' = nmax
                          /\ IF /\ Len(nt) = Len(nc)
                                /\ Len(Hist2dFlat(nt, nc, nmax)) = nmax * nmax
                             THEN /\ hist_2d' = reshape(Hist2dFlat(nt, nc, nmax), nmax, nmax)
                                  /\ pc' = "one_to_one"
                             ELSE /\ hist_2d' = hist_2d
                                  /\ pc' = "raised"
  /\ UNCHANGED <<coadd_cat, truth_cat, extragalactic_cat, coadd_data, truth_data,
                 results, truth_idx, coadd_idx, matched, matched_gals,
                 extragalactic_data>>
  /\ UNCHANGED calls

OneToOne ==
  /\ UNCHANGED otherThanMatch
  /\ pc = "one_to_one"
  /\ truth_idx' = TruthIdx(results, n_truth, n_coadd)
  /\ coadd_idx' = CoaddIdx(results, n_truth, n_coadd)
  /\ pc' = "matched"
  /\ UNCHANGED <<coadd_cat, truth_cat, extragalactic_cat, coadd_data, truth_data,
                 results, n_groups, n_truth, n_coadd, n_max, hist_2d,
                 matched, matched_gals, extragalactic_data>>
  /\ UNCHANGED calls

Matched ==
  /\ UNCHANGED otherThanMatch
  /\ pc = "matched"
  /\ matched' = MergeOnIndex(iloc(truth_data, truth_idx), iloc(coadd_data, coadd_idx))
  /\ pc' = "matched_gals"
  /\ UNCHANGED <<coadd_cat, truth_cat, extragalactic_cat, coadd_data, truth_data,
                 results, n_groups, n_truth, n_coadd, n_max, hist_2d,
                 truth_idx, coadd_idx, matched_gals, extragalactic_data>>
  /\ UNCHANGED calls

MatchedGals ==
  /\ UNCHANGED otherThanMatch
  /\ pc = "matched_gals"
  /\ matched_gals' = MatchedGalsQuery(matched)
  /\ pc' = "load_extragalactic"
  /\ UNCHANGED <<coadd_cat, truth_cat, extragalactic_cat, coadd_data, truth_data,
                 results, n_groups, n_truth, n_coadd, n_max, hist_2d,
                 truth_idx, coadd_idx, matched, extragalactic_data>>
  /\ UNCHANGED calls

LoadExtragalacticCat ==
  /\ UNCHANGED otherThanMatch
  /\ pc = "load_extragalactic"
  /\ extragalactic_cat' \in ExtragalacticCatalogs
  /\ pc' = "get_extragalactic"
  /\ UNCHANGED <<coadd_cat, truth_cat, coadd_data, truth_data,
                 results, n_groups, n_truth, n_coadd, n_max, hist_2d,
                 truth_idx, coadd_idx, matched, matched_gals, extragalactic_data>>
  /\ Log("load_catalog", "extragalactic_cat", {})

GetExtragalacticData ==
  /\ UNCHANGED otherThanMatch
  /\ pc = "get_extragalactic"
  /\ extragalactic_data' = ExtragalacticQuery(extragalactic_cat, matched_gals)
  /\ pc' = "merge"
  /\ UNCHANGED <<coadd_cat, truth_cat, extragalactic_cat, coadd_data, truth_data,
                 results, n_groups, n_truth, n_coadd, n_max, hist_2d,
                 truth_idx, coadd_idx, matched, matched_gals>>
  /\ Log("get_quantities", "extragalactic_data", {"extragalactic_cat"})

MergeExtragalactic ==
  /\ UNCHANGED otherThanMatch
  /\ pc = "merge"
  /\ matched_gals' = MergeLeft(matched_gals, extragalactic_data)
  /\ pc' = "assert"
  /\ UNCHANGED <<coadd_cat, truth_cat, extragalactic_cat, coadd_data, truth_data,
                 results, n_groups, n_truth, n_coadd, n_max, hist_2d,
                 truth_idx, coadd_idx, matched, extragalactic_data>>
  /\ UNCHANGED calls

AssertIds ==
  /\ UNCHANGED otherThanMatch
  /\ pc = "assert"
  /\ pc' = IF assert_array_equal(Column(matched_gals, "object_id"),
                                 Column(matched_gals, "galaxy_id"))
           THEN "done" ELSE "assertion_error"
  /\ UNCHANGED matchVars
  /\ UNCHANGED calls

MatchNext ==
  \/ LoadCoaddCat
  \/ InspectFootprint
  \/ GetCoaddData
  \/ LoadTruthCat
  \/ GetTruthData
  \/ FoFMatch
  \/ CountGroups
  \/ OneToOne
  \/ Matched
  \/ MatchedGals
  \/ LoadExtragalacticCat
  \/ GetExtragalacticData
  \/ MergeExtragalactic
  \/ AssertIds

SpecMatch == MatchInit /\ [][MatchNext]_vars

(***************************************************************************)
(* Properties of the matching notebook                                     *)
(***************************************************************************)
RECURSIVE Sum(_)
Sum(a) == IF a = <<>> THEN 0 ELSE Head(a) + Sum(Tail(a))

Counted == pc \in {"one_to_one", "matched", "matched_gals", "load_extragalactic",
                   "get_extragalactic", "merge", "assert", "done", "assertion_error"}

Indexed == pc \in {"matched", "matched_gals", "load_extragalactic",
                   "get_extragalactic", "merge", "assert", "done", "assertion_error"}

Merged == pc \in {"assert", "done", "assertion_error"}

MaxGroup == ArrayMax(Column(results, "group_id"))

\* the rows of results with group id g that are (or are not) truth rows
RowsOf(g, truth) ==
  {j \in DOMAIN results :
     results[j].group_id = g /\ ((results[j].catalog_key = "truth") <=> truth)}

\* C3: n_truth[g] and n_coadd[g] count the truth rows and the other rows of
\* group g, for every g in 0..max(group_id); both arrays are n_groups =
\* max(group_id)+1 long and together they count every row of the result.
C3_GroupCounts ==
  Counted \/ (pc = "raised" /\ results # <<>>) =>
    /\ n_groups = MaxGroup + 1
    /\ Len(n_truth) = n_groups
    /\ Len(n_coadd) = n_groups
    /\ \A g \in 0..MaxGroup :
         /\ At(n_truth, g) = Cardinality(RowsOf(g, TRUE))
         /\ At(n_coadd, g) = Cardinality(RowsOf(g, FALSE))
    /\ Sum(n_truth) + Sum(n_coadd) = Len(results)

\* the highest group has no truth row, a group has two coadd rows, an id is unused
C3_Witness ==
  /\ Counted
  /\ At(n_truth, MaxGroup) = 0
  /\ \E g \in 0..MaxGroup : At(n_coadd, g) = 2
  /\ \E g \in 0..MaxGroup : At(n_truth, g) = 0 /\ At(n_coadd, g) = 0

GroupsWith(c, t) ==
  {g \in 0..MaxGroup :
     Cardinality(RowsOf(g, FALSE)) = c /\ Cardinality(RowsOf(g, TRUE)) = t}

\* C4: hist_2d is n_max x n_max with n_max = max(max n_truth, max n_coadd) + 1,
\* hist_2d[c][t] is the number of groups with c coadd and t truth objects, the
\* flat index n_coadd*n_max + n_truth is distinct for distinct (c, t) and at
\* most n_max*n_max - 1 (the cell does not raise), and the entries sum to
\* n_groups.
C4_Hist2d ==
  /\ pc = "raised" => results = <<>>
  /\ Counted =>
       /\ n_max = Max2(ArrayMax(n_truth), ArrayMax(n_coadd)) + 1
       /\ Len(hist_2d) = n_max
       /\ \A c \in 0..(n_max - 1) :
            /\ Len(At(hist_2d, c)) = n_max
            /\ \A t \in 0..(n_max - 1) :
                 At(At(hist_2d, c), t) = Cardinality(GroupsWith(c, t))
       /\ \A g, h \in DOMAIN n_truth :
            /\ n_coadd[g] * n_max + n_truth[g] <= n_max * n_max - 1
            /\ n_coadd[g] * n_max + n_truth[g] = n_coadd[h] * n_max + n_truth[h]
                 => n_coadd[g] = n_coadd[h] /\ n_truth[g] = n_truth[h]
       /\ Sum([c \in DOMAIN hist_2d |-> Sum(hist_2d[c])]) = n_groups

\* a 3 x 3 table counting an unused group id, a group of 2 coadd and 1 truth
\* objects and a group of 1 truth object
C4_Witness ==
  /\ Counted
  /\ n_max = 3
  /\ At(At(hist_2d, 0), 0) = 1
  /\ At(At(hist_2d, 2), 1) = 1
  /\ At(At(hist_2d, 0), 1) = 1

OneToOneGroupSet ==
  {g \in 0..MaxGroup :
     Cardinality(RowsOf(g, TRUE)) = 1 /\ Cardinality(RowsOf(g, FALSE)) = 1}

RowIndexes(truth) ==
  {results[j].row_index :
     j \in {k \in DOMAIN results :
              /\ results[k].group_id \in OneToOneGroupSet
              /\ (results[k].catalog_key = "truth") <=> truth}}

\* C5: truth_idx holds exactly the row_index of the truth rows, and coadd_idx
\* of the coadd rows, of the groups with one truth and one coadd object; both
\* are as long as the number of such groups.
C5_OneToOneIndexes ==
  Indexed =>
    /\ Elems(truth_idx) = RowIndexes(TRUE)
    /\ Elems(coadd_idx) = RowIndexes(FALSE)
    /\ Len(truth_idx) = Cardinality(OneToOneGroupSet)
    /\ Len(coadd_idx) = Cardinality(OneToOneGroupSet)

\* a one-to-one group next to a group with one truth object and no coadd
\* object and a group with one coadd object and no truth object
C5_Witness ==
  /\ Indexed
  /\ Len(truth_idx) = 1
  /\ \E g \in 0..MaxGroup : At(n_truth, g) = 1 /\ At(n_coadd, g) = 0
  /\ \E g \in 0..MaxGroup : At(n_truth, g) = 0 /\ At(n_coadd, g) = 1

\* C1: after the left merge every row of matched_gals has galaxy_id equal to
\* object_id, so the assertion does not raise: every matched truth object that
\* is neither a star nor sprinkled has a row in extragalactic_data.
C1_MergedIdsEqual ==
  /\ pc # "assertion_error"
  /\ Merged =>
       /\ \A k \in DOMAIN matched_gals :
            matched_gals[k].galaxy_id = matched_gals[k].object_id
       /\ \A k \in DOMAIN matched :
            ~matched[k].star /\ ~matched[k].sprinkled
              => \E j \in DOMAIN extragalactic_data :
                   extragalactic_data[j].galaxy_id = matched[k].object_id

\* the assertion passed on a merged table, a sprinkled object had been matched
\* and queried out, and the membership filter left a galaxy out
C1_Witness ==
  /\ pc = "done"
  /\ Len(matched_gals) >= 1
  /\ \E k \in DOMAIN matched : matched[k].sprinkled
  /\ Len(extragalactic_data) < Len(extragalactic_cat)

(***************************************************************************)
(* Cluster member notebook                                                 *)
(***************************************************************************)
\* the catalog lists the galaxies halo by halo, the central first; a halo is
\* the default cluster or differs from it in one quantity
DefaultHalo == [halo_mass |-> 2 * halo_mass_cut, redshift |-> redshift_cut - 1,
                mag_r |-> mag_r_cut - 5, sats |-> <<>>]

HaloKinds ==
  {DefaultHalo,
   [DefaultHalo EXCEPT !.halo_mass = halo_mass_cut],
   [DefaultHalo EXCEPT !.redshift = redshift_cut],
   [DefaultHalo EXCEPT !.mag_r = mag_r_cut],
   [DefaultHalo EXCEPT !.sats = <<mag_r_cut - 20>>],
   [DefaultHalo EXCEPT !.sats = <<mag_r_cut + 5>>]}

HaloIdOf(k) == 7 * (MaxHalos + 2 - k)

HaloGalaxies(k, h) ==
  <<[ra |-> 10 * k, dec |-> 0, mag_r |-> h.mag_r, halo_id |-> HaloIdOf(k),
     is_central |-> TRUE, halo_mass |-> h.halo_mass, redshift |-> h.redshift]>>
  \o [j \in DOMAIN h.sats |->
        [ra |-> 10 * k + j, dec |-> j, mag_r |-> h.sats[j], halo_id |-> HaloIdOf(k),
         is_central |-> FALSE, halo_mass |-> h.halo_mass, redshift |-> h.redshift]]

RECURSIVE HalosFrom(_, _)
HalosFrom(kinds, k) ==
  IF k > Len(kinds) THEN <<>>
  ELSE HaloGalaxies(k, kinds[k]) \o HalosFrom(kinds, k + 1)

ProtoDC2Catalogs == {HalosFrom(kinds, 1) : kinds \in [1..MaxHalos -> HaloKinds]}

GalaxyFilter_Le(row) == row.mag_r # NaN /\ row.mag_r <= mag_r_cut

\* filters=['mag_r < 19']
GalaxyFilter(row) == Lt(row.mag_r, mag_r_cut)

\* filters=['is_central', 'halo_mass > 1e14', 'redshift < 0.2']
ClusterFilter(row) ==
  /\ row.is_central
  /\ Lt(halo_mass_cut, row.halo_mass)
  /\ Lt(row.redshift, redshift_cut)

\* '{}'.format(n) of a non-negative integer: its decimal digits
RECURSIVE format(_)
format(n) == IF n < 10 THEN <<n>> ELSE format(n \div 10) \o <<n % 10>>

\* the integer literal the query parser reads back
RECURSIVE literal(_)
literal(digits) ==
  IF Len(digits) = 1 THEN digits[1]
  ELSE 10 * literal(SubSeq(digits, 1, Len(digits) - 1)) + digits[Len(digits)]

\* GCRQuery('halo_id == {}'.format(cluster['halo_id']))
HaloQuery(cluster) == [column |-> "halo_id", op |-> "==", value |-> format(cluster.halo_id)]

\* GCRQuery(...).filter(galaxy_data)
QueryFilter(query, data) ==
  LET Pass(row) == row[query.column] = literal(query.value)
  IN  SelectSeq(data, Pass)

\* s=(19-members['mag_r'])*8
MarkerSizes(m) == [j \in DOMAIN m |-> (marker_ref - m[j].mag_r) * marker_scale]

BreakNow_OffByOne(k) == k > PlotLimit

\* if (i >= 3): break
BreakNow(k) == k >= PlotLimit

ClusterInit ==
  /\ calls = <<>>
  /\ QueryIdle
  /\ pc = "load_protoDC2"
  /\ ClusterIdle
  /\ MatchIdle
  /\ StackIdle

LoadProtoDC2 ==
  /\ pc = "load_protoDC2"
  /\ gc' \in ProtoDC2Catalogs
  /\ pc' = "get_data_1"
  /\ UNCHANGED <<galaxy_data, cluster_data, i, members, figures, queries>>
  /\ UNCHANGED otherThanCluster
  /\ Log("load_catalog", "gc", {})

\* the two get_quantities cells apply the same filters
GetData(here, next) ==
  /\ pc = here
  /\ galaxy_data' = SelectSeq(gc, GalaxyFilter)
  /\ cluster_data' = SelectSeq(gc, ClusterFilter)
  /\ pc' = next
  /\ UNCHANGED <<gc, i, members, figures, queries>>
  /\ UNCHANGED otherThanCluster
  /\ calls' = calls \o <<Call("get_quantities", "galaxy_data", {"gc"}, TRUE),
                        Call("get_quantities", "cluster_data", {"gc"}, TRUE)>>

\* cluster_data = Table(cluster_data); the for statement starts enumerate
StartLoop(here, loop) ==
  /\ pc = here
  /\ i' = 0
  /\ figures' = <<>>
  /\ queries' = <<>>
  /\ pc' = loop
  /\ UNCHANGED <<gc, galaxy_data, cluster_data, members>>
  /\ UNCHANGED otherThanCluster
  /\ UNCHANGED calls

\* one pass of the loop body: query the members, make the figure
PlotCluster(loop) ==
  /\ pc = loop
  /\ i < Len(cluster_data)
  /\ ~BreakNow(i)
  /\ LET cluster == At(cluster_data, i)
         m == QueryFilter(HaloQuery(cluster), galaxy_data)
     IN  /\ members' = m
         /\ queries' = Append(queries, i)
         /\ figures' = Append(figures,
              [members |-> m, s |-> MarkerSizes(m), label |-> Len(m),
               center |-> <<cluster.ra, cluster.dec>>, halo_id |-> cluster.halo_id,
               halo_mass |-> cluster.halo_mass])
  /\ i' = i + 1
  /\ UNCHANGED <<pc, gc, galaxy_data, cluster_data>>
  /\ UNCHANGED otherThanCluster
  /\ UNCHANGED calls

Break(loop, show) ==
  /\ pc = loop
  /\ i < Len(cluster_data)
  /\ BreakNow(i)
  /\ pc' = show
  /\ UNCHANGED clusterVars
  /\ UNCHANGED otherThanCluster
  /\ UNCHANGED calls

Exhausted(loop, show) ==
  /\ pc = loop
  /\ i = Len(cluster_data)
  /\ pc' = show
  /\ UNCHANGED clusterVars
  /\ UNCHANGED otherThanCluster
  /\ UNCHANGED calls

\* plt.show()
Show(show, next) ==
  /\ pc = show
  /\ pc' = next
  /\ UNCHANGED clusterVars
  /\ UNCHANGED otherThanCluster
  /\ UNCHANGED calls

ClusterNext ==
  \/ LoadProtoDC2
  \/ GetData("get_data_1", "table_1")
  \/ StartLoop("table_1", "loop_1")
  \/ PlotCluster("loop_1")
  \/ Break("loop_1", "show_1")
  \/ Exhausted("loop_1", "show_1")
  \/ Show("show_1", "get_data_2")
  \/ GetData("get_data_2", "table_2")
  \/ StartLoop("table_2", "loop_2")
  \/ PlotCluster("loop_2")
  \/ Break("loop_2", "show_2")
  \/ Exhausted("loop_2", "show_2")
  \/ Show("show_2", "clusters_done")

SpecCluster == ClusterInit /\ [][ClusterNext]_vars

(***************************************************************************)
(* Properties of the cluster member notebook                               *)
(***************************************************************************)
InLoop == pc \in {"loop_1", "loop_2"}

LoopOver == pc \in {"show_1", "show_2", "get_data_2", "clusters_done"}

\* C8: a plotting loop makes figures for the first three clusters of
\* cluster_data only, in catalog order: min(3, N) figures when it ends, and it
\* never queries the members of a cluster with index >= 3.
C8_FirstThreeClusters ==
  /\ InLoop \/ LoopOver =>
       /\ Len(figures) <= PlotLimit
       /\ Len(figures) <= Len(cluster_data)
       /\ \A k \in DOMAIN queries : queries[k] = k - 1 /\ queries[k] < PlotLimit
       /\ Len(queries) = Len(figures)
       /\ \A k \in DOMAIN figures : figures[k].halo_id = cluster_data[k].halo_id
  /\ LoopOver => Len(figures) = Min2(PlotLimit, Len(cluster_data))

\* a loop has ended on a catalog of four clusters
C8_Witness ==
  /\ pc = "show_2"
  /\ Len(cluster_data) = PlotLimit + 1
  /\ Len(figures) = PlotLimit

MembersOf(halo_id) ==
  LET Member(row) == row.mag_r # NaN /\ row.mag_r < mag_r_cut /\ row.halo_id = halo_id
  IN  SelectSeq(gc, Member)

\* C9: the members of each plotted cluster are exactly the galaxies with
\* mag_r < 19 whose halo_id is the cluster's, and every marker size
\* (19 - mag_r) * 8 is strictly positive.
C9_MembersAndSizes ==
  InLoop \/ LoopOver =>
    /\ \A k \in DOMAIN figures :
         /\ figures[k].members = MembersOf(cluster_data[k].halo_id)
         /\ \A j \in DOMAIN figures[k].s : figures[k].s[j] > 0
    /\ figures # <<>> => members = figures[Len(figures)].members

\* a plotted cluster with two members, one with a member fainter than the cut
\* left out, and one whose central is at the cut and left out
C9_Witness ==
  /\ LoopOver
  /\ \E k \in DOMAIN figures : Len(figures[k].members) = 2
  /\ \E k \in DOMAIN figures : \E j \in DOMAIN gc :
       /\ gc[j].halo_id = figures[k].halo_id
       /\ gc[j].mag_r > mag_r_cut
       /\ Len(figures[k].members) = 1
  /\ \E k \in DOMAIN figures : figures[k].members = <<>>

(***************************************************************************)
(* LSST Stack matching notebook                                            *)
(***************************************************************************)
\* afw_table.SourceTable.makeMinimalSchema(): the catalog built on it takes
\* a 'parent' value next to id, coord_ra and coord_dec
makeMinimalSchema ==
  <<[name |-> "id", type |-> "L", doc |-> "unique ID"],
    [name |-> "coord_ra", type |-> "Angle", doc |-> "position in ra/dec"],
    [name |-> "coord_dec", type |-> "Angle", doc |-> "position in ra/dec"],
    [name |-> "parent", type |-> "L", doc |-> "unique ID of parent source"]>>

\* the afw field type of a Python type
AfwType(type) == CASE type = "float" -> "D"
                   [] type = "int" -> "L"
                   [] OTHER -> type

Field_DocAsName(coldef) ==
  [name |-> coldef.doc, type |-> AfwType(coldef.type), doc |-> coldef.name]

\* the field of schema.addField(coldef.name, type=coldef.type, doc=coldef.doc)
Field(coldef) ==
  [name |-> coldef.name, type |-> AfwType(coldef.type), doc |-> coldef.doc]

\* for coldef in new_cols: schema.addField(...); addField raises when the
\* schema already has a field of that name
RECURSIVE AddFields(_, _)
AddFields(schema, cols) ==
  IF cols = <<>> THEN [raised |-> FALSE, schema |-> schema]
  ELSE IF Field(Head(cols)).name \in Elems(Column(schema, "name"))
       THEN [raised |-> TRUE, schema |-> schema]
       ELSE AddFields(Append(schema, Field(Head(cols))), Tail(cols))

make_SourceCatalog(cols) ==
  LET r == AddFields(makeMinimalSchema, cols)
  IN  IF r.raised THEN [raised |-> TRUE, catalog |-> NoCatalog]
      ELSE [raised |-> FALSE, catalog |-> [schema |-> r.schema, records |-> <<>>]]

MagName(x) == CASE x = "r" -> "mag_r" [] x = "i" -> "mag_i"

MagDoc(x) == CASE x = "r" -> "r-magnitude" [] x = "i" -> "i-magnitude"

\* [Coldef('mag_{}'.format(x), float, '{}-magnitude'.format(x)) for x in bands]
mag_cols(bands) ==
  [k \in DOMAIN bands |->
     [name |-> MagName(bands[k]), type |-> "float", doc |-> MagDoc(bands[k])]]

Coldefs == [name : {"mag_r", "mag_i", "parent"}, type : {"float"},
            doc : {"r-magnitude", "i-magnitude"}]

ColdefLists == SeqsUpTo(Coldefs, MaxCols)

SchemaInit ==
  /\ calls = <<>>
  /\ QueryIdle
  /\ pc = "call_make_SourceCatalog"
  /\ MatchIdle
  /\ ClusterIdle
  /\ filter_ = ""
  /\ region_selector = NoSelector
  /\ gc_stack = <<>>
  /\ galaxy_catalog = NoCatalog
  /\ new_cols \in ColdefLists
  /\ source_catalog = NoCatalog
  /\ catalog = <<>>
  /\ drp_catalog = NoCatalog
  /\ matches = {}
  /\ warnings_filters = <<>>
  /\ saved_filters = <<>>
  /\ warned = <<>>

MakeSourceCatalog ==
  /\ pc = "call_make_SourceCatalog"
  /\ LET r == make_SourceCatalog(new_cols)
     IN  /\ source_catalog' = r.catalog
         /\ pc' = IF r.raised THEN "raised" ELSE "returned"
  /\ UNCHANGED <<filter_, region_selector, gc_stack, galaxy_catalog, new_cols,
                 catalog, drp_catalog, matches, warnings_filters, saved_filters, warned>>
  /\ UNCHANGED otherThanStack
  /\ UNCHANGED calls

SchemaNext == MakeSourceCatalog

SpecSchema == SchemaInit /\ [][SchemaNext]_vars

transform(ra, dec) ==
  [ra |-> [k \in DOMAIN ra |-> ra[k] + protoDC2_ra],
   dec |-> [k \in DOMAIN dec |-> dec[k] + protoDC2_dec]]

\* afw_geom.Angle(value, afw_geom.degrees)
Angle(value) == [value |-> value, units |-> "degrees"]

ArrayMin(a) == CHOOSE m \in Elems(a) : \A x \in Elems(a) : m <= x

\* _set_coord_range: the sky positions of the corners of the bounding box
set_coord_range(corners) ==
  [ra_range |-> <<ArrayMin(Column(corners, "ra")), ArrayMax(Column(corners, "ra"))>>,
   dec_range |-> <<ArrayMin(Column(corners, "dec")), ArrayMax(Column(corners, "dec"))>>]

\* region_box.getCorners() through wcs.pixelToSky, for the patches on disk
PatchCorners ==
  {<<[ra |-> protoDC2_ra, dec |-> protoDC2_dec - 1], [ra |-> hi, dec |-> protoDC2_dec - 1],
     [ra |-> hi, dec |-> protoDC2_dec + 1], [ra |-> protoDC2_ra, dec |-> protoDC2_dec + 1]>> :
   hi \in {protoDC2_ra + 1, protoDC2_ra + 2}}

bandname(band) == CASE band = "r" -> "mag_true_r_lsst" [] band = "i" -> "mag_true_i_lsst"

InRegion_Inclusive(self, ra, dec) ==
  /\ Ge(ra, self.ra_range[1])
  /\ Lt(ra, self.ra_range[2])
  /\ Ge(dec, self.dec_range[1])
  /\ Lt(dec, self.dec_range[2])

\* (gc_ra_rot > self.ra_range[0]) & (gc_ra_rot < self.ra_range[1]) &
\* (gc_dec_rot > self.dec_range[0]) & (gc_dec_rot < self.dec_range[1])
InRegion(self, ra, dec) ==
  /\ Lt(self.ra_range[1], ra)
  /\ Lt(ra, self.ra_range[2])
  /\ Lt(self.dec_range[1], dec)
  /\ Lt(dec, self.dec_range[2])

\* a[index] for an array of positions
TakeAt(a, index) == [k \in DOMAIN index |-> At(a, index[k])]

\* galaxy_catalog.addNew(): a record of the schema's fields, unset
NewRecord(schema) ==
  [f \in Elems(Column(schema, "name")) |-> IF f \in {"id", "parent"} THEN 0 ELSE NaN]

MinLen(a, b, c, d) == Min2(Min2(Len(a), Len(b)), Min2(Len(c), Len(d)))

\* RegionSelector.__call__(self, gc, band, max_mag)
RegionSelectorCall(self, rows, band, max_mag) ==
  LET MagCut(row) == Lt(row[bandname(band)], max_mag)
      gc_cols == SelectSeq(rows, MagCut)
      rot == transform(Column(gc_cols, "ra_true"), Column(gc_cols, "dec_true"))
      index == flatnonzero([k \in DOMAIN gc_cols |-> InRegion(self, rot.ra[k], rot.dec[k])])
      galaxy_id == TakeAt(Column(gc_cols, "galaxy_id"), index)
      gc_ra == TakeAt(rot.ra, index)
      gc_dec == TakeAt(rot.dec, index)
      gc_mag == TakeAt(Column(gc_cols, bandname(band)), index)
      empty == make_SourceCatalog(mag_cols(<<band>>)).catalog
  IN  [schema |-> empty.schema,
       records |->
         [k \in 1..MinLen(galaxy_id, gc_ra, gc_dec, gc_mag) |->
            [NewRecord(empty.schema) EXCEPT
               !["id"] = galaxy_id[k],
               !["coord_ra"] = Angle(gc_ra[k]),
               !["coord_dec"] = Angle(gc_dec[k]),
               ![MagName(band)] = gc_mag[k]]]]

\* the galaxies of the extragalactic catalog, in the field centred on (0, 0)
GalaxyRowSet(id) ==
  [galaxy_id : {id}, ra_true : {0, 1, 2}, dec_true : {0, 1},
   mag_true_r_lsst : {mag_max - 5, mag_max}, mag_true_i_lsst : {mag_max - 5, mag_max}]

GalaxyCatalogs ==
  UNION {{c \in [1..m -> UNION {GalaxyRowSet(100 + id) : id \in 1..m}] :
            \A j \in 1..m : c[j].galaxy_id = 100 + j} : m \in 0..MaxGalaxies}

\* calib.getMagnitude(flux) for the coadd's zero point of 25.0
getMagnitude(flux) == CASE flux = 10 -> 225 [] flux = 1 -> 250 [] OTHER -> NaN

\* a record of deepCoadd_meas that passes every cut, at the rotated position
\* of the galaxy with ra_true = 1, dec_true = 0
GoodSource(id) ==
  [id |-> id, coord_ra |-> Angle(protoDC2_ra + 1), coord_dec |-> Angle(protoDC2_dec),
   parent |-> 0, base_ClassificationExtendedness_value |-> 1,
   modelfit_CModel_flag |-> FALSE, modelfit_CModel_flux |-> 10, deblend_nChild |-> 0]

\* butler.get('deepCoadd_meas', dataId=dataId) for the one tract, patch and
\* filter the cell names: a source too faint, one that passes, one not extended
SourceCatalogs ==
  {<<[GoodSource(1) EXCEPT !.modelfit_CModel_flux = 1], GoodSource(2),
     [GoodSource(3) EXCEPT !.base_ClassificationExtendedness_value = 0]>>}

\* (ext == 1) & (model_flag == False) & (model_flux > 0) & (num_children == 0)
ExtendedCut(row) ==
  /\ row.base_ClassificationExtendedness_value = 1
  /\ row.modelfit_CModel_flag = FALSE
  /\ row.modelfit_CModel_flux > 0
  /\ row.deblend_nChild = 0

\* mag < mag_max
DepthCut(row) == Lt(getMagnitude(row.modelfit_CModel_flux), mag_max)

\* the cell that cuts catalog down to drp_catalog
DrpCatalog(cat, band) ==
  LET cat_temp == SelectSeq(SelectSeq(cat, ExtendedCut), DepthCut)
      empty == make_SourceCatalog(mag_cols(<<band>>)).catalog
  IN  [schema |-> empty.schema,
       records |->
         [k \in DOMAIN cat_temp |->
            [NewRecord(empty.schema) EXCEPT
               !["id"] = cat_temp[k].id,
               !["coord_ra"] = cat_temp[k].coord_ra,
               !["coord_dec"] = cat_temp[k].coord_dec,
               !["parent"] = cat_temp[k].parent,
               ![MagName(band)] = getMagnitude(cat_temp[k].modelfit_CModel_flux)]]]

\* afw_table.matchRaDec(cat1, cat2, radius) for a radius of 0.1 arcsecond,
\* far below the spacing of the positions here
matchRaDec(cat1, cat2) ==
  {m \in [first : Elems(cat1.records), second : Elems(cat2.records)] :
     /\ m.first["coord_ra"] = m.second["coord_ra"]
     /\ m.first["coord_dec"] = m.second["coord_dec"]}

(***************************************************************************)
(* The warnings module                                                     *)
(***************************************************************************)
WarningFilter(action, category) == [action |-> action, category |-> category]

\* warnings.filters when the notebook starts
FilterStates == {<<>>, <<WarningFilter("ignore", "DeprecationWarning")>>}

\* what a library call may warn about
WarningLists == {<<>>, <<"UserWarning">>}

\* load_catalog warns about the catalog it reads, which is why the cell
\* wraps it
LoadWarnings == <<"UserWarning">>

\* warnings.filterwarnings(action): a filter for every category, put in front
filterwarnings(action, filters) == <<WarningFilter(action, "Warning")>> \o filters

FilterMatches(f, category) == f.category = "Warning" \/ f.category = category

\* the action of the first filter that matches, "default" when none does
Disposition(filters, category) ==
  IF \E k \in DOMAIN filters : FilterMatches(filters[k], category)
  THEN LET first == CHOOSE k \in DOMAIN filters :
                      /\ FilterMatches(filters[k], category)
                      /\ \A j \in 1..(k - 1) : ~FilterMatches(filters[j], category)
       IN  filters[first].action
  ELSE "default"

\* warnings.warn for each category of ws, from inside the call named by
Warn(filters, ws, by) ==
  [k \in DOMAIN ws |->
     [category |-> ws[k], by |-> by, shown |-> Disposition(filters, ws[k]) # "ignore"]]

catch_warnings_exit_Keep(saved, current) == current

\* catch_warnings.__exit__: warnings.filters = the list saved by __enter__
catch_warnings_exit(saved, current) == saved

StackInit ==
  /\ calls = <<>>
  /\ QueryIdle
  /\ pc = "make_selector"
  /\ MatchIdle
  /\ ClusterIdle
  /\ StackUnset
  /\ warnings_filters \in FilterStates

\* the cell that gets catalog and calexp from the butler, sets filter_ and
\* builds region_selector = PatchSelector(...)
MakeSelector ==
  /\ pc = "make_selector"
  /\ filter_' \in {"r", "i"}
  /\ catalog' \in SourceCatalogs
  /\ \E corners \in PatchCorners : region_selector' = set_coord_range(corners)
  /\ pc' = "build_drp"
  /\ UNCHANGED <<gc_stack, galaxy_catalog, new_cols, source_catalog, drp_catalog,
                 matches, warnings_filters, saved_filters, warned>>
  /\ UNCHANGED otherThanStack
  /\ calls' = calls \o <<Call("butler.get", "catalog", {}, TRUE),
                        Call("butler.get", "calexp", {}, TRUE),
                        Call("butler.get", "region_selector", {}, TRUE)>>

\* the cell that applies the extendedness, flag, blendedness and depth cuts
BuildDrpCatalog ==
  /\ pc = "build_drp"
  /\ drp_catalog' = DrpCatalog(catalog, filter_)
  /\ pc' = "load_gc"
  /\ UNCHANGED <<filter_, region_selector, gc_stack, galaxy_catalog, new_cols,
                 source_catalog, catalog, matches, warnings_filters, saved_filters,
                 warned>>
  /\ UNCHANGED otherThanStack
  /\ Log("subset", "drp_catalog", {"catalog"})

\* with warnings.catch_warnings():
EnterCatchWarnings ==
  /\ pc = "load_gc"
  /\ saved_filters' = warnings_filters
  /\ pc' = "filterwarnings"
  /\ UNCHANGED <<filter_, region_selector, gc_stack, galaxy_catalog, new_cols,
                 source_catalog, catalog, drp_catalog, matches, warnings_filters,
                 warned>>
  /\ UNCHANGED otherThanStack
  /\ UNCHANGED calls

\* warnings.filterwarnings('ignore')
FilterWarnings ==
  /\ pc = "filterwarnings"
  /\ warnings_filters' = filterwarnings("ignore", warnings_filters)
  /\ pc' = "load_catalog"
  /\ UNCHANGED <<filter_, region_selector, gc_stack, galaxy_catalog, new_cols,
                 source_catalog, catalog, drp_catalog, matches, saved_filters, warned>>
  /\ UNCHANGED otherThanStack
  /\ UNCHANGED calls

\* gc = GCRCatalogs.load_catalog('proto-dc2_v2.1.2_test')
LoadGc ==
  /\ pc = "load_catalog"
  /\ warned' = warned \o Warn(warnings_filters, LoadWarnings, "load_catalog")
  /\ gc_stack' \in GalaxyCatalogs
  /\ pc' = "exit_block"
  /\ UNCHANGED <<filter_, region_selector, galaxy_catalog, new_cols, source_catalog,
                 catalog, drp_catalog, matches, warnings_filters, saved_filters>>
  /\ UNCHANGED otherThanStack
  /\ Log("load_catalog", "gc_stack", {})

\* leaving the with block
ExitCatchWarnings ==
  /\ pc = "exit_block"
  /\ warnings_filters' = catch_warnings_exit(saved_filters, warnings_filters)
  /\ pc' = "select_region"
  /\ UNCHANGED <<filter_, region_selector, gc_stack, galaxy_catalog, new_cols,
                 source_catalog, catalog, drp_catalog, matches, saved_filters, warned>>
  /\ UNCHANGED otherThanStack
  /\ UNCHANGED calls

\* galaxy_catalog = region_selector(gc, band=filter_, max_mag=mag_max)
SelectRegion ==
  /\ pc = "select_region"
  /\ \E ws \in WarningLists : warned' = warned \o Warn(warnings_filters, ws, "region_selector")
  /\ galaxy_catalog' = RegionSelectorCall(region_selector, gc_stack, filter_, mag_max)
  /\ pc' = "match_ra_dec"
  /\ UNCHANGED <<filter_, region_selector, gc_stack, new_cols, source_catalog,
                 catalog, drp_catalog, matches, warnings_filters, saved_filters>>
  /\ UNCHANGED otherThanStack
  /\ Log("get_quantities", "galaxy_catalog", {"gc_stack"})

\* matches = afw_table.matchRaDec(drp_catalog, galaxy_catalog, radius)
MatchRaDec ==
  /\ pc = "match_ra_dec"
  /\ matches' = matchRaDec(drp_catalog, galaxy_catalog)
  /\ pc' = "stack_done"
  /\ UNCHANGED <<filter_, region_selector, gc_stack, galaxy_catalog, new_cols,
                 source_catalog, catalog, drp_catalog, warnings_filters, saved_filters,
                 warned>>
  /\ UNCHANGED otherThanStack
  /\ Log("matchRaDec", "matches", {"drp_catalog", "galaxy_catalog"})

StackNext ==
  \/ MakeSelector
  \/ BuildDrpCatalog
  \/ EnterCatchWarnings
  \/ FilterWarnings
  \/ LoadGc
  \/ ExitCatchWarnings
  \/ SelectRegion
  \/ MatchRaDec

SpecStack == StackInit /\ [][StackNext]_vars

(***************************************************************************)
(* Properties of the region selector                                       *)
(***************************************************************************)
\* the rows of gc below the magnitude limit whose rotated position is
\* strictly inside the region
Selected ==
  LET Wanted(row) ==
        LET rot == transform(<<row.ra_true>>, <<row.dec_true>>)
        IN  /\ row[bandname(filter_)] < mag_max
            /\ region_selector.ra_range[1] < rot.ra[1]
            /\ rot.ra[1] < region_selector.ra_range[2]
            /\ region_selector.dec_range[1] < rot.dec[1]
            /\ rot.dec[1] < region_selector.dec_range[2]
  IN  SelectSeq(gc_stack, Wanted)

\* C2: the catalog __call__ returns has one record for each galaxy below
\* max_mag in the band whose rotated (ra, dec) is strictly inside ra_range x
\* dec_range, and no other; each record has that galaxy's id, rotated ra,
\* rotated dec and magnitude; the records are in the input order.
C2_RegionSelection ==
  pc = "match_ra_dec" =>
    /\ Len(galaxy_catalog.records) = Len(Selected)
    /\ \A k \in DOMAIN Selected :
         LET rot == transform(<<Selected[k].ra_true>>, <<Selected[k].dec_true>>)
             rec == galaxy_catalog.records[k]
         IN  /\ rec["id"] = Selected[k].galaxy_id
             /\ rec["coord_ra"] = Angle(rot.ra[1])
             /\ rec["coord_dec"] = Angle(rot.dec[1])
             /\ rec[MagName(filter_)] = Selected[k][bandname(filter_)]

\* of two galaxies below the limit in the i band, the first is on the edge of
\* the region and left out, and the second is inside and brighter in i only
C2_Witness ==
  /\ pc = "match_ra_dec"
  /\ filter_ = "i"
  /\ Len(gc_stack) = 2
  /\ gc_stack[1].mag_true_i_lsst < mag_max
  /\ gc_stack[1].ra_true + protoDC2_ra = region_selector.ra_range[2]
  /\ gc_stack[2].mag_true_r_lsst = mag_max
  /\ Len(galaxy_catalog.records) = 1
  /\ galaxy_catalog.records[1]["id"] = gc_stack[2].galaxy_id

(***************************************************************************)
(* Truth catalog notebook                                                  *)
(***************************************************************************)
ISqrt(n) == CHOOSE r \in 0..n : r * r <= n /\ n < (r + 1) * (r + 1)

\* lsst.sims.utils.angularSeparation on a patch small enough to be flat,
\* rounded down to the model's unit
angularSeparation(ra1, dec1, ra2, dec2) ==
  ISqrt((ra1 - ra2) * (ra1 - ra2) + (dec1 - dec2) * (dec1 - dec2))

\* np.array(list) of Python booleans: numpy infers the dtype from the
\* elements, and with no element to look at it takes its default, float64
np_array(list) ==
  [dtype |-> IF list = <<>> THEN "float64" ELSE "bool", data |-> list]

\* np.array([hh in list_of_healpix for hh in hp])
filter_on_healpix(hp) ==
  np_array([k \in DOMAIN hp |-> hp[k] \in Elems(list_of_healpix)])

\* a comparison of arrays is a bool array of the same shape
Less(a, y) == [dtype |-> "bool", data |-> [k \in DOMAIN a |-> Lt(a[k], y)]]

Separations(ra, dec) ==
  [k \in DOMAIN ra |-> angularSeparation(ra[k], dec[k], center_ra, center_dec)]

filter_on_dist_Le(ra, dec) ==
  [dtype |-> "bool",
   data |-> [k \in DOMAIN ra |-> Separations(ra, dec)[k] <= radius]]

\* angularSeparation(ra, dec, center_ra, center_dec) < radius
filter_on_dist(ra, dec) == Less(Separations(ra, dec), radius)

\* native_filters of the two queries, the healpix bounds included
HealpixBounds(row) ==
  /\ row.healpix_2048 <= ArrayMax(list_of_healpix)
  /\ row.healpix_2048 >= ArrayMin(list_of_healpix)

StarNativeFilter(row) == row.star /\ Lt(row.r, r_star_cut) /\ HealpixBounds(row)

GalaxyNativeFilter(row) ==
  ~row.star /\ ~row.sprinkled /\ Lt(row.r, r_galaxy_cut) /\ HealpixBounds(row)

\* filters=[(filter_on_healpix, 'healpix_2048'), (filter_on_dist, 'ra', 'dec')]
Filtered(rows, hpm, dm) == Take(rows, MaskAnd(hpm.data, dm.data))

\* only bool arrays combine with & and index an array; what get_quantities
\* makes of an empty float64 mask depends on the installed GCR and numpy
Usable(hpm, dm) == hpm.dtype = "bool" /\ dm.dtype = "bool"

TruthObjects ==
  [healpix_2048 : 1..3, ra : {center_ra, center_ra + 1, center_ra + radius},
   dec : {center_dec, center_dec + 1}, star : BOOLEAN, sprinkled : {FALSE},
   r : {r_star_cut - 5}]

\* healpy.query_disc(..., inclusive=True): the pixels overlapping the disc,
\* in increasing order, at least one
HealpixLists == {SortedSeq(S) : S \in (SUBSET (1..3)) \ {{}}}

QueryInit ==
  /\ calls = <<>>
  /\ pc = "load_truth_catalog"
  /\ MatchIdle
  /\ ClusterIdle
  /\ StackIdle
  /\ QueryIdle

LoadTruthCatalog ==
  /\ pc = "load_truth_catalog"
  /\ truth_catalog' \in SeqsUpTo(TruthObjects, MaxObjects)
  /\ pc' = "define_filters"
  /\ UNCHANGED <<list_of_healpix, native, hp_mask, dist_mask, bright_stars,
                 bright_unsprinkled_galaxies>>
  /\ UNCHANGED otherThanQuery
  /\ Log("load_catalog", "truth_catalog", {})

DefineFilters ==
  /\ pc = "define_filters"
  /\ list_of_healpix' \in HealpixLists
  /\ pc' = "query_stars"
  /\ UNCHANGED <<truth_catalog, native, hp_mask, dist_mask, bright_stars,
                 bright_unsprinkled_galaxies>>
  /\ UNCHANGED otherThanQuery
  /\ UNCHANGED calls

QueryBrightStars ==
  /\ pc = "query_stars"
  /\ LET rows == SelectSeq(truth_catalog, StarNativeFilter)
         hpm == filter_on_healpix(Column(rows, "healpix_2048"))
         dm == filter_on_dist(Column(rows, "ra"), Column(rows, "dec"))
     IN  /\ native' = rows
         /\ hp_mask' = hpm
         /\ dist_mask' = dm
         /\ IF Usable(hpm, dm)
              THEN /\ bright_stars' = Filtered(rows, hpm, dm)
                   /\ pc' = "query_galaxies"
              ELSE \/ /\ bright_stars' = <<>>
                      /\ pc' = "query_galaxies"
                   \/ /\ bright_stars' = bright_stars
                      /\ pc' = "raised"
  /\ UNCHANGED <<truth_catalog, list_of_healpix, bright_unsprinkled_galaxies>>
  /\ UNCHANGED otherThanQuery
  /\ calls' = Append(calls, Call("get_quantities", "bright_stars", {"truth_catalog"},
                                pc' # "raised"))

QueryBrightGalaxies ==
  /\ pc = "query_galaxies"
  /\ LET rows == SelectSeq(truth_catalog, GalaxyNativeFilter)
         hpm == filter_on_healpix(Column(rows, "healpix_2048"))
         dm == filter_on_dist(Column(rows, "ra"), Column(rows, "dec"))
     IN  /\ native' = rows
         /\ hp_mask' = hpm
         /\ dist_mask' = dm
         /\ IF Usable(hpm, dm)
              THEN /\ bright_unsprinkled_galaxies' = Filtered(rows, hpm, dm)
                   /\ pc' = "queries_done"
              ELSE \/ /\ bright_unsprinkled_galaxies' = <<>>
                      /\ pc' = "queries_done"
                   \/ /\ bright_unsprinkled_galaxies' = bright_unsprinkled_galaxies
                      /\ pc' = "raised"
  /\ UNCHANGED <<truth_catalog, list_of_healpix, bright_stars>>
  /\ UNCHANGED otherThanQuery
  /\ calls' = Append(calls, Call("get_quantities", "bright_unsprinkled_galaxies",
                                {"truth_catalog"}, pc' # "raised"))

QueryNext ==
  \/ LoadTruthCatalog
  \/ DefineFilters
  \/ QueryBrightStars
  \/ QueryBrightGalaxies

SpecQuery == QueryInit /\ [][QueryNext]_vars

(***************************************************************************)
(* Properties of the filter functions                                      *)
(***************************************************************************)
Queried == pc \in {"query_galaxies", "queries_done", "raised"}

InDisc(row) ==
  (row.ra - center_ra) * (row.ra - center_ra)
    + (row.dec - center_dec) * (row.dec - center_dec) < radius * radius

InPixels(row) == \E j \in DOMAIN list_of_healpix : list_of_healpix[j] = row.healpix_2048

EntryPerObject ==
  /\ Len(hp_mask.data) = Len(native)
  /\ Len(dist_mask.data) = Len(native)
  /\ \A k \in DOMAIN native :
       /\ hp_mask.data[k] <=> InPixels(native[k])
       /\ dist_mask.data[k] <=> InDisc(native[k])

\* C6: a filter function returns a boolean array with one entry per input
\* object telling whether it passed: filter_on_healpix(hp) is as long as hp and
\* its entry k is true iff hp[k] is in list_of_healpix; filter_on_dist(ra, dec)
\* has entry k true iff (ra[k], dec[k]) is less than radius from the centre.
C6_FilterMasks ==
  Queried =>
    /\ hp_mask.dtype = "bool"
    /\ dist_mask.dtype = "bool"
    /\ EntryPerObject

\* what the two functions do deliver: the entries are right and one per object
\* always, and the array is boolean whenever there is an object to look at
C6_EntriesRight ==
  Queried =>
    /\ EntryPerObject
    /\ dist_mask.dtype = "bool"
    /\ native # <<>> => hp_mask.dtype = "bool"

\* no object of a non-empty catalog reached the filters, and
\* filter_on_healpix answered with an empty float64 array
C6_Witness ==
  /\ Queried
  /\ truth_catalog # <<>>
  /\ native = <<>>
  /\ hp_mask = [dtype |-> "float64", data |-> <<>>]

\* two stars reached the filters: one inside the disc in a pixel that is not
\* listed, one in a listed pixel exactly radius away from the centre
C6_BothFiltersAct ==
  /\ pc = "query_galaxies"
  /\ Len(native) = 2
  /\ ~hp_mask.data[1] /\ dist_mask.data[1]
  /\ hp_mask.data[2] /\ ~dist_mask.data[2]
  /\ native[2].ra = center_ra + radius /\ native[2].dec = center_dec

(***************************************************************************)
(* The notebooks together, with library calls that may raise               *)
(***************************************************************************)
NotebooksInit ==
  \/ MatchInit
  \/ ClusterInit
  \/ StackInit
  \/ QueryInit

Raises_Retry(here, op, to, on) ==
  /\ pc = here
  /\ pc' = IF \E k \in DOMAIN calls : ~calls[k].ok THEN "raised" ELSE here
  /\ calls' = Append(calls, Call(op, to, on, FALSE))
  /\ UNCHANGED <<matchVars, clusterVars, stackVars, queryVars>>

\* the call of the cell at here raises: no cell has a try statement, so the
\* exception leaves the cell before the call's result is bound
Raises(here, op, to, on) ==
  /\ pc = here
  /\ pc' = "raised"
  /\ calls' = Append(calls, Call(op, to, on, FALSE))
  /\ UNCHANGED <<matchVars, clusterVars, stackVars, queryVars>>

MatchRaises ==
  \/ Raises("load_coadd", "load_catalog", "coadd_cat", {})
  \/ Raises("footprint", "get_quantities", "coadd_data", {"coadd_cat"})
  \/ Raises("get_coadd", "get_quantities", "coadd_data", {"coadd_cat"})
  \/ Raises("load_truth", "load_catalog", "truth_cat", {})
  \/ Raises("get_truth", "get_quantities", "truth_data", {"truth_cat"})
  \/ Raises("match", "match", "results", {"truth_data", "coadd_data"})
  \/ Raises("load_extragalactic", "load_catalog", "extragalactic_cat", {})
  \/ Raises("get_extragalactic", "get_quantities", "extragalactic_data", {"extragalactic_cat"})

\* the second get_quantities of the cell raises: galaxy_data is already bound
GetDataSecondRaises(here) ==
  /\ pc = here
  /\ galaxy_data' = SelectSeq(gc, GalaxyFilter)
  /\ pc' = "raised"
  /\ calls' = calls \o <<Call("get_quantities", "galaxy_data", {"gc"}, TRUE),
                        Call("get_quantities", "cluster_data", {"gc"}, FALSE)>>
  /\ UNCHANGED <<gc, cluster_data, i, members, figures, queries>>
  /\ UNCHANGED otherThanCluster

ClusterRaises ==
  \/ Raises("load_protoDC2", "load_catalog", "gc", {})
  \/ Raises("get_data_1", "get_quantities", "galaxy_data", {"gc"})
  \/ GetDataSecondRaises("get_data_1")
  \/ Raises("get_data_2", "get_quantities", "galaxy_data", {"gc"})
  \/ GetDataSecondRaises("get_data_2")

\* butler.get('deepCoadd_meas') raises: filter_ is bound, catalog is not
MakeSelectorRaisesFirst ==
  /\ pc = "make_selector"
  /\ filter_' \in {"r", "i"}
  /\ pc' = "raised"
  /\ calls' = Append(calls, Call("butler.get", "catalog", {}, FALSE))
  /\ UNCHANGED <<region_selector, gc_stack, galaxy_catalog, new_cols, source_catalog,
                 catalog, drp_catalog, matches, warnings_filters, saved_filters, warned>>
  /\ UNCHANGED otherThanStack

\* butler.get('deepCoadd') raises: filter_ and catalog are bound
MakeSelectorRaisesSecond ==
  /\ pc = "make_selector"
  /\ filter_' \in {"r", "i"}
  /\ catalog' \in SourceCatalogs
  /\ pc' = "raised"
  /\ calls' = calls \o <<Call("butler.get", "catalog", {}, TRUE),
                        Call("butler.get", "calexp", {}, FALSE)>>
  /\ UNCHANGED <<region_selector, gc_stack, galaxy_catalog, new_cols, source_catalog,
                 drp_catalog, matches, warnings_filters, saved_filters, warned>>
  /\ UNCHANGED otherThanStack

\* butler.get('deepCoadd_skyMap') raises inside PatchSelector.__init__
MakeSelectorRaisesThird ==
  /\ pc = "make_selector"
  /\ filter_' \in {"r", "i"}
  /\ catalog' \in SourceCatalogs
  /\ pc' = "raised"
  /\ calls' = calls \o <<Call("butler.get", "catalog", {}, TRUE),
                        Call("butler.get", "calexp", {}, TRUE),
                        Call("butler.get", "region_selector", {}, FALSE)>>
  /\ UNCHANGED <<region_selector, gc_stack, galaxy_catalog, new_cols, source_catalog,
                 drp_catalog, matches, warnings_filters, saved_filters, warned>>
  /\ UNCHANGED otherThanStack

\* load_catalog raises inside the with block: the exception passes through
\* catch_warnings.__exit__ on its way out of the cell
LoadGcRaises ==
  /\ pc = "load_catalog"
  /\ warned' = warned \o Warn(warnings_filters, LoadWarnings, "load_catalog")
  /\ pc' = "exit_raising"
  /\ calls' = Append(calls, Call("load_catalog", "gc_stack", {}, FALSE))
  /\ UNCHANGED <<filter_, region_selector, gc_stack, galaxy_catalog, new_cols,
                 source_catalog, catalog, drp_catalog, matches, warnings_filters,
                 saved_filters>>
  /\ UNCHANGED otherThanStack

ExitCatchWarningsRaising ==
  /\ pc = "exit_raising"
  /\ warnings_filters' = catch_warnings_exit(saved_filters, warnings_filters)
  /\ pc' = "raised"
  /\ UNCHANGED <<filter_, region_selector, gc_stack, galaxy_catalog, new_cols,
                 source_catalog, catalog, drp_catalog, matches, saved_filters, warned>>
  /\ UNCHANGED otherThanStack
  /\ UNCHANGED calls

StackRaises ==
  \/ MakeSelectorRaisesFirst
  \/ MakeSelectorRaisesSecond
  \/ MakeSelectorRaisesThird
  \/ LoadGcRaises
  \/ ExitCatchWarningsRaising
  \/ Raises("select_region", "get_quantities", "galaxy_catalog", {"gc_stack"})
  \/ Raises("match_ra_dec", "matchRaDec", "matches", {"drp_catalog", "galaxy_catalog"})

QueryRaises ==
  \/ Raises("load_truth_catalog", "load_catalog", "truth_catalog", {})
  \/ Raises("query_stars", "get_quantities", "bright_stars", {"truth_catalog"})
  \/ Raises("query_galaxies", "get_quantities", "bright_unsprinkled_galaxies", {"truth_catalog"})

NotebooksNext ==
  \/ MatchNext
  \/ ClusterNext
  \/ StackNext
  \/ QueryNext

\* every notebook run from its first cell, every library call returning
SpecNotebooks == NotebooksInit /\ [][NotebooksNext]_vars

RaisingNext ==
  \/ NotebooksNext
  \/ MatchRaises
  \/ ClusterRaises
  \/ StackRaises
  \/ QueryRaises

\* the same, with library calls that may raise
SpecNotebooksRaising == NotebooksInit /\ [][RaisingNext]_vars

StackRaisingNext ==
  \/ StackNext
  \/ StackRaises

\* the Stack notebook alone, with library calls that may raise
SpecStackRaising == StackInit /\ [][StackRaisingNext]_vars

(***************************************************************************)
(* The order of the library calls                                          *)
(***************************************************************************)
LoadOps == {"load_catalog", "butler.get"}

FilterOps == {"get_quantities", "subset"}

MatchOps == {"match", "matchRaDec"}

\* an earlier call of one of ops returned and bound the variable named to
Before(k, ops, to) ==
  \E j \in 1..(k - 1) : calls[j].op \in ops /\ calls[j].to = to /\ calls[j].ok

FilteredBefore(k, to) ==
  \E j \in 1..(k - 1) :
    /\ calls[j].op \in FilterOps
    /\ calls[j].to = to
    /\ calls[j].ok
    /\ \A c \in calls[j].on : Before(j, LoadOps, c)

MatchCalled(op) == \E k \in DOMAIN calls : calls[k].op = op /\ calls[k].ok

\* C11: the calls come in the order load, filter, match: every filtering call
\* on a catalog comes after the call that loaded that catalog, and a matching
\* call comes only after both of its inputs were loaded and filtered, so that
\* what is matched is the filtered data.
C11_LoadFilterMatch ==
  /\ \A k \in DOMAIN calls :
       /\ calls[k].op \in FilterOps => \A c \in calls[k].on : Before(k, LoadOps, c)
       /\ calls[k].op \in MatchOps => \A d \in calls[k].on : FilteredBefore(k, d)
  /\ MatchCalled("match") =>
       /\ coadd_data = CoaddQuery(coadd_cat)
       /\ truth_data = TruthQuery(truth_cat)
       /\ Len(results) = Len(truth_data) + Len(coadd_data)
  /\ MatchCalled("matchRaDec") =>
       /\ drp_catalog = DrpCatalog(catalog, filter_)
       /\ galaxy_catalog = RegionSelectorCall(region_selector, gc_stack, filter_, mag_max)
       /\ matches = matchRaDec(drp_catalog, galaxy_catalog)

\* matchRaDec has paired a source that passed the cuts with a galaxy that
\* passed the selection, while the butler's catalog and gc hold more rows
C11_Witness ==
  /\ pc = "stack_done"
  /\ MatchCalled("matchRaDec")
  /\ matches # {}
  /\ Len(drp_catalog.records) < Len(catalog)
  /\ Len(galaxy_catalog.records) < Len(gc_stack)

\* FoFCatalogMatching.match has grouped filtered truth and coadd rows, while
\* both catalogs hold rows the filters dropped
C11_MatchNotebook ==
  /\ MatchCalled("match")
  /\ results # <<>>
  /\ Len(coadd_data) < Len(coadd_cat)
  /\ Len(truth_data) < Len(truth_cat)

(***************************************************************************)
(* Exceptions                                                              *)
(***************************************************************************)
Raised == pc \in {"raised", "exit_raising"}

\* the variable a call's result is bound to
ValueOf(name) ==
  CASE name = "coadd_cat" -> coadd_cat
    [] name = "coadd_data" -> coadd_data
    [] name = "truth_cat" -> truth_cat
    [] name = "truth_data" -> truth_data
    [] name = "results" -> results
    [] name = "extragalactic_cat" -> extragalactic_cat
    [] name = "extragalactic_data" -> extragalactic_data
    [] name = "gc" -> gc
    [] name = "galaxy_data" -> galaxy_data
    [] name = "cluster_data" -> cluster_data
    [] name = "catalog" -> catalog
    [] name = "region_selector" -> region_selector
    [] name = "drp_catalog" -> drp_catalog
    [] name = "gc_stack" -> gc_stack
    [] name = "galaxy_catalog" -> galaxy_catalog
    [] name = "matches" -> matches
    [] name = "truth_catalog" -> truth_catalog
    [] name = "bright_stars" -> bright_stars
    [] name = "bright_unsprinkled_galaxies" -> bright_unsprinkled_galaxies
    [] OTHER -> <<>>

Targets == {calls[k].to : k \in DOMAIN calls}

\* a failed call is the last call made, and the notebook has stopped on it
FailedCallIsLast ==
  \A k \in DOMAIN calls : ~calls[k].ok => k = Len(calls) /\ Raised

\* the step in which a call fails leaves every variable bound by an earlier
\* cell as it was, and does not bind the failed call's own variable
FailingStepKeeps ==
  (Len(calls') > Len(calls) /\ ~calls'[Len(calls')].ok) =>
    LET rebound == {calls'[k].to : k \in (Len(calls) + 1)..(Len(calls') - 1)}
    IN  \A name \in (Targets \cup {calls'[Len(calls')].to}) \ rebound :
          ValueOf(name)' = ValueOf(name)

IgnoreAll == WarningFilter("ignore", "Warning")

InsideBlock == pc \in {"load_catalog", "exit_block", "exit_raising"}

LeftBlock ==
  \/ pc \in {"select_region", "match_ra_dec", "stack_done"}
  \/ pc = "raised" /\ \E k \in DOMAIN calls : calls[k].to \in {"gc_stack", "galaxy_catalog", "matches"}

\* C13: the 'ignore' filter is in warnings.filters only inside the with block
\* around load_catalog; once the block is left, by return or by exception,
\* warnings.filters is what it was on entry, and a warning from
\* region_selector or a later call is shown unless the filters of before the
\* block ignore it.
C13_SuppressionConfined ==
  /\ IgnoreAll \in Elems(warnings_filters) => InsideBlock
  /\ LeftBlock => warnings_filters = saved_filters
  /\ \A k \in DOMAIN warned :
       warned[k].by # "load_catalog" =>
         (warned[k].shown <=> Disposition(saved_filters, warned[k].category) # "ignore")

\* load_catalog warned inside the block and the warning was not shown;
\* region_selector warned after it, under the restored non-empty filters, and
\* that warning was shown
C13_Witness ==
  /\ pc = "match_ra_dec"
  /\ Len(warned) = 2
  /\ warned[1].by = "load_catalog" /\ ~warned[1].shown
  /\ warned[2].by = "region_selector" /\ warned[2].shown
  /\ warnings_filters # <<>>

\* load_catalog raised inside the block and the filters are back
C13_ExceptionExit ==
  /\ pc = "raised"
  /\ \E k \in DOMAIN calls : calls[k].to = "gc_stack" /\ ~calls[k].ok
  /\ warnings_filters = saved_filters
  /\ warnings_filters # <<>>

====
